---- MODULE Spec2Model ----
(***************************************************************************)
(* A model of VibeParser's document-type classifier (PDFRouter) and of its *)
(* text post-processor (TextPostProcessor).                                *)
(*                                                                         *)
(* Numbers: the code computes with Python floats.  The model keeps every   *)
(* ratio as an exact fraction <<numerator, denominator>> with a positive   *)
(* denominator and compares fractions by cross-multiplication.             *)
(* Strings are sequences of one-character strings.                         *)
(***************************************************************************)
EXTENDS Integers, Sequences, FiniteSets, TLC

VARIABLES
    \* ---- PDFRouter.identify_type: one call in progress ----
    doc,                \* the document behind pdf_path: its sequence of pages
    pc,                 \* position of the call inside identify_type
    handle,             \* "none" | "open" | "closed": the fitz document handle
    total_text_area,    \* local of identify_type
    total_page_area,    \* local of identify_type
    text_quality,       \* local of identify_type (a fraction)
    images_area_ratio,  \* image_analysis['images_area_ratio'] (a fraction)
    verdict,            \* "none" until the call returns, then the return value
    fired,              \* number of the decision rule that returned, else 0
    raised,             \* the place where a collaborator raised, or "none"
    propagated,         \* TRUE iff an exception left identify_type
    history,            \* the calls this router has completed, oldest first
    \* ---- TextPostProcessor: one processor and the text it is given ----
    text,               \* the string handed to the next operation
    op,                 \* the last operation applied ("none" before any)
    result,             \* what that operation returned
    calls,              \* number of operations applied so far
    num_keywords,       \* the num_keywords argument of extract_keywords
    nltk,               \* which nltk data loads: [punkt, stopwords] and
                        \* where sent_tokenize raises: raises_at
    \* ---- DoclingExtractor: one instance and the threads that call it ----
    ocr_enabled,        \* self.config.ocr.enabled
    converter,          \* self.converter: 0 for None, else an engine's number
    built,              \* the engines constructed so far, by their options
    epc,                \* position of each thread's call
    eargs,              \* the arguments of each thread's call
    elocal,             \* the local `converter` of each thread's call
    elog,               \* the engine of each conversion so far, oldest first
    ecalls              \* number of calls made so far

routerVars == <<doc, pc, handle, total_text_area, total_page_area,
                text_quality, images_area_ratio, verdict, fired, raised,
                propagated, history>>
postVars == <<text, op, result, calls, num_keywords, nltk>>
extractorVars ==
    <<ocr_enabled, converter, built, epc, eargs, elocal, elog, ecalls>>
vars == <<routerVars, postVars, extractorVars>>

----------------------------------------------------------------------------
(* Bounds of the model *)

\* longest document (in pages) built from BasicPages
MaxPages == 6
\* clean_text inputs: longest string over CleanChars, most CleanPieces
MaxCleanLen == 7
MaxCleanPieces == 3
\* how often clean_text is applied in a row
MaxCalls == 2
\* most pieces of a structure_text, extract_keywords, assess_quality input
MaxStructPieces == 3
MaxKeywordPieces == 4
MaxQualityPieces == 3
\* largest num_keywords
MaxKeywords == 2
\* most calls of identify_type on one router
MaxRouterCalls == 3
\* most paragraphs of a text made of whole paragraphs, and the last
\* paragraph on which sent_tokenize is made to raise
MaxParagraphs == 4
MaxRaisesAt == 2
\* most calls on one extractor
MaxExtractorCalls == 3
\* threads that share one DoclingExtractor
MaxThreads == 2
\* most MarkdownPieces in a markdown input of post_process_extraction
MaxMarkdownPieces == 3

----------------------------------------------------------------------------
(* Fractions *)

Frac(n, d) == <<n, d>>
FLt(x, y) == x[1] * y[2] < y[1] * x[2]
FGt(x, y) == FLt(y, x)
FEq(x, y) == x[1] * y[2] = y[1] * x[2]
FLe(x, y) == ~FLt(y, x)
Zero == Frac(0, 1)
One == Frac(1, 1)
RECURSIVE GCD(_, _)
GCD(a, b) == IF b = 0 THEN a ELSE GCD(b, a % b)
\* the same fraction in lowest terms
FNorm(x) ==
    LET g == GCD(IF x[1] < 0 THEN -x[1] ELSE x[1], x[2])
    IN  Frac(x[1] \div g, x[2] \div g)
\* x + y, over the least common denominator
FAdd(x, y) ==
    LET a == FNorm(x)
        b == FNorm(y)
        l == (a[2] \div GCD(a[2], b[2])) * b[2]
    IN  FNorm(Frac(a[1] * (l \div a[2]) + b[1] * (l \div b[2]), l))
\* x * y
FMul(x, y) == FNorm(Frac(x[1] * y[1], x[2] * y[2]))
\* x / k for an integer k > 0
FDiv(x, k) ==
    LET a == FNorm(x)
        g == GCD(IF a[1] < 0 THEN -a[1] ELSE a[1], k)
    IN  Frac(a[1] \div g, a[2] * (k \div g))

Min(a, b) == IF a < b THEN a ELSE b
Abs(a) == IF a < 0 THEN -a ELSE a

Rep(c, n) == [k \in 1..n |-> c]

RECURSIVE SumOver(_, _, _)
\* sum of f[k] for k in lo..hi
SumOver(f, lo, hi) == IF lo > hi THEN 0 ELSE f[lo] + SumOver(f, lo + 1, hi)

----------------------------------------------------------------------------
(* Characters *)

UpperSeq == <<"A", "B", "C", "D", "E", "F", "G", "H", "I", "J", "K", "L", "M",
              "N", "O", "P", "Q", "R", "S", "T", "U", "V", "W", "X", "Y", "Z">>
LowerSeq == <<"a", "b", "c", "d", "e", "f", "g", "h", "i", "j", "k", "l", "m",
              "n", "o", "p", "q", "r", "s", "t", "u", "v", "w", "x", "y", "z">>
\* [A-Z], [a-z], \d
UpperChars == {UpperSeq[k] : k \in 1..26}
LowerChars == {LowerSeq[k] : k \in 1..26}
DigitChars == {"0", "1", "2", "3", "4", "5", "6", "7", "8", "9"}
\* characters outside ASCII, written by their code point: the ligatures fi
\* and fl (letters), the private-use bullet, the bullet, the en dash and the
\* em dash (symbols)
LigatureFi == "U+FB01"
LigatureFl == "U+FB02"
PrivateBullet == "U+F0B7"
Bullet == "U+2022"
EnDash == "U+2013"
EmDash == "U+2014"
\* str.isspace / regex \s
SpaceChars == {" ", "\n", "\r", "\t"}
\* str.isalnum
AlnumChars ==
    UpperChars \cup LowerChars \cup DigitChars \cup {LigatureFi, LigatureFl}
IsAlnum(c) == c \in AlnumChars
IsSpace(c) == c \in SpaceChars
\* regex \w
IsWord(c) == IsAlnum(c) \/ c = "_"
\* [A-Za-z]
LetterChars == UpperChars \cup LowerChars
\* [^\w\s]
IsSymbol(c) == ~IsWord(c) /\ ~IsSpace(c)
\* str.lower, one character
Lower(c) ==
    IF c \in UpperChars
    THEN LowerSeq[CHOOSE k \in 1..26 : UpperSeq[k] = c]
    ELSE c

----------------------------------------------------------------------------
(* Strings *)

RECURSIVE Flatten(_)
\* the concatenation of a sequence of strings
Flatten(ps) == IF ps = <<>> THEN <<>> ELSE Head(ps) \o Flatten(Tail(ps))

\* all sequences of at most n elements of S
SeqsUpTo(S, n) == UNION {[1..m -> S] : m \in 0..n}

\* s[lo..hi]
Slice(s, lo, hi) == IF hi < lo THEN <<>> ELSE SubSeq(s, lo, hi)
\* every, no character of s[lo..hi] is in the class S
AllIn(s, lo, hi, S) == \A k \in lo..hi : s[k] \in S
NoneIn(s, lo, hi, S) == \A k \in lo..hi : s[k] \notin S

\* str.strip
FirstNonSpace(s) ==
    IF \A k \in 1..Len(s) : IsSpace(s[k]) THEN Len(s) + 1
    ELSE CHOOSE k \in 1..Len(s) :
             ~IsSpace(s[k]) /\ \A j \in 1..(k - 1) : IsSpace(s[j])
LastNonSpace(s) ==
    IF \A k \in 1..Len(s) : IsSpace(s[k]) THEN 0
    ELSE CHOOSE k \in 1..Len(s) :
             ~IsSpace(s[k]) /\ \A j \in (k + 1)..Len(s) : IsSpace(s[j])
Strip(s) ==
    IF LastNonSpace(s) = 0 THEN <<>>
    ELSE Slice(s, FirstNonSpace(s), LastNonSpace(s))

\* the least j >= k where '\n\n' starts in s, or Len(s) + 1
NextBlank(s, k) ==
    LET n == Len(s)
        BlankAt(j) == j < n /\ s[j] = "\n" /\ s[j + 1] = "\n"
    IN  CHOOSE j \in k..(n + 1) :
            (j = n + 1 \/ BlankAt(j)) /\ \A i \in k..(j - 1) : ~BlankAt(i)
RECURSIVE SplitBlankFrom(_, _)
\* the parts of s from position k on
SplitBlankFrom(s, k) ==
    LET cut == NextBlank(s, k)
    IN  IF cut > Len(s) THEN <<Slice(s, k, Len(s))>>
        ELSE <<Slice(s, k, cut - 1)>> \o SplitBlankFrom(s, cut + 2)
\* text.split('\n\n')
SplitBlank(s) == SplitBlankFrom(s, 1)

\* len(text.split()): the number of maximal runs of non-space characters
WordCount(s) ==
    Cardinality({k \in 1..Len(s) :
                    ~IsSpace(s[k]) /\ (k = 1 \/ IsSpace(s[k - 1]))})

Terminators == {".", "!", "?"}
\* the least j >= k with s[j] a terminator (want) or none (~want), or
\* Len(s) + 1
NextTerminator(s, k, want) ==
    LET n == Len(s)
    IN  CHOOSE j \in k..(n + 1) :
            /\ j = n + 1 \/ (s[j] \in Terminators) = want
            /\ \A i \in k..(j - 1) : (s[i] \in Terminators) # want
RECURSIVE SplitTerminatorsFrom(_, _)
\* the parts of s from position k on; a separator is a whole run of
\* terminators
SplitTerminatorsFrom(s, k) ==
    LET cut == NextTerminator(s, k, TRUE)
    IN  IF cut > Len(s) THEN <<Slice(s, k, Len(s))>>
        ELSE <<Slice(s, k, cut - 1)>>
                 \o SplitTerminatorsFrom(s, NextTerminator(s, cut, FALSE))
\* re.split(r'[.!?]+', paragraph)
SplitTerminators(s) == SplitTerminatorsFrom(s, 1)

----------------------------------------------------------------------------
(* Documents: what the fitz collaborator reports *)

\* a page: its rectangle's area, its blocks (area, block_type), its raw text,
\* and its images, each the area of its bounding box or NoBBox when
\* page.get_image_bbox raises for it
NoBBox == -1
Block(a, t) == [area |-> a, type |-> t]
Page(a, bl, tx, im) == [area |-> a, blocks |-> bl, text |-> tx, images |-> im]

\* a text with al alphanumeric characters, sp spaces and ot other characters
MkText(al, sp, ot) == Rep("a", al) \o Rep(" ", sp) \o Rep(".", ot)

TextAreas == {1, 2, 3, 4, 5, 6, 10, 11, 12}
PageTexts == {<<>>, MkText(0, 0, 4), MkText(2, 2, 6), MkText(3, 3, 4),
              MkText(4, 4, 2), MkText(5, 1, 4), MkText(5, 5, 0),
              MkText(6, 4, 0), MkText(10, 0, 0)}
PageImages == {<<>>, <<70>>, <<71>>, <<NoBBox>>, <<NoBBox, 30>>}

\* one-page documents that spread over the decision rules
RichPages == {Page(100, <<Block(t, 0), Block(50, 1)>>, tx, im) :
                 t \in TextAreas, tx \in PageTexts, im \in PageImages}

\* pages of the longer documents
BlankPage == Page(0, <<>>, <<>>, <<>>)
TextPage == Page(100, <<Block(8, 0), Block(4, 0)>>, MkText(6, 4, 0), <<>>)
ScanPage == Page(100, <<Block(1, 0)>>, <<>>, <<90>>)
BasicPages == {BlankPage, TextPage, ScanPage}

\* documents of one or two pages of dense, good text with images on them
ImagePage(im) == Page(100, <<Block(12, 0)>>, MkText(6, 4, 0), im)
ImageDocs == {<<ImagePage(a)>> : a \in PageImages}
                 \cup {<<ImagePage(a), ImagePage(b)>> :
                           a \in PageImages, b \in PageImages}

Docs == {<<p>> : p \in RichPages}
          \cup ImageDocs
          \cup UNION {[1..n -> BasicPages] : n \in 0..MaxPages}

----------------------------------------------------------------------------
(* PDFRouter *)

\* _calculate_text_quality_score
QualityPagesFive(d) == Min(5, Len(d))
QualityPages(d) == Min(3, Len(d))
CountIn(tx, S) == Cardinality({k \in 1..Len(tx) : tx[k] \in S})
TotalChars(d) == SumOver([k \in 1..QualityPages(d) |-> Len(d[k].text)],
                         1, QualityPages(d))
\* spaces counted among the valid word characters as well
ValidWordCharsOrSpaces(d) ==
    SumOver([k \in 1..QualityPages(d) |->
                 CountIn(d[k].text, AlnumChars \cup {" "})],
            1, QualityPages(d))
ValidWordChars(d) ==
    SumOver([k \in 1..QualityPages(d) |-> CountIn(d[k].text, AlnumChars)],
            1, QualityPages(d))
SpaceCount(d) ==
    SumOver([k \in 1..QualityPages(d) |-> CountIn(d[k].text, {" "})],
            1, QualityPages(d))
QualityScoreEmptyIsPerfect(d) ==
    IF TotalChars(d) = 0 THEN One
    ELSE Frac(7 * ValidWordChars(d) + 3 * SpaceCount(d), 10 * TotalChars(d))
QualityScore(d) ==
    IF TotalChars(d) = 0 THEN Zero
    ELSE \* alpha_ratio * 0.7 + space_ratio * 0.3
         Frac(7 * ValidWordChars(d) + 3 * SpaceCount(d), 10 * TotalChars(d))

\* _analyze_image_content; image areas are kept doubled so that the 50%
\* estimate stays an integer
ImagePages(d) == Min(3, Len(d))
\* an image without a bounding box left out of the total
ImageArea2Skipped(p, img) == IF img = NoBBox THEN 0 ELSE 2 * img
\* try: img_bbox.get_area(); except: page_rect.get_area() * 0.5
ImageArea2(p, img) == IF img = NoBBox THEN p.area ELSE 2 * img
PageImagesArea2(p) ==
    SumOver([k \in 1..Len(p.images) |-> ImageArea2(p, p.images[k])],
            1, Len(p.images))
TotalImagesArea2(d) ==
    SumOver([k \in 1..ImagePages(d) |-> PageImagesArea2(d[k])],
            1, ImagePages(d))
ImagePageArea(d) ==
    SumOver([k \in 1..ImagePages(d) |-> d[k].area], 1, ImagePages(d))
ImagesAreaRatio(d) ==
    IF ImagePageArea(d) > 0
    THEN Frac(TotalImagesArea2(d), 2 * ImagePageArea(d))
    ELSE Zero

\* identify_type, the sampling loop
PagesToCheckAll(d) == Len(d)
PagesToCheck(d) == Min(5, Len(d))
BlockArea(b) == IF b.type = 0 THEN b.area ELSE 0
PageTextArea(p) ==
    SumOver([k \in 1..Len(p.blocks) |-> BlockArea(p.blocks[k])],
            1, Len(p.blocks))
SampledTextArea(d) ==
    SumOver([k \in 1..PagesToCheck(d) |-> PageTextArea(d[k])],
            1, PagesToCheck(d))
SampledPageArea(d) ==
    SumOver([k \in 1..PagesToCheck(d) |-> d[k].area], 1, PagesToCheck(d))

\* text_density = (total_text_area / total_page_area) * 100
TextDensity(tta, tpa) == Frac(100 * tta, tpa)

\* the thresholds of the decision logic
DensityLow == Frac(2, 1)
DensityArtifact == Frac(5, 1)
QualityArtifact == Frac(3, 10)
ImageDominant == Frac(7, 10)
DensityHigh == Frac(10, 1)
QualityHigh == Frac(4, 10)
DensityModerate == Frac(3, 1)
QualityModerate == Frac(5, 10)

\* identify_type, the decision logic: the number of the return statement
\* reached (1..5 the rules in source order, 6 the default)
DecideNativeFirst(density, quality, ratio) ==
    IF FGt(density, DensityHigh) /\ FGt(quality, QualityHigh) THEN 4
    ELSE IF FGt(density, DensityModerate) /\ FGt(quality, QualityModerate)
         THEN 5
    ELSE IF FLt(density, DensityLow) THEN 1
    ELSE IF FGt(density, DensityArtifact) /\ FLt(quality, QualityArtifact)
         THEN 2
    ELSE IF FGt(ratio, ImageDominant) THEN 3
    ELSE 6
DecideNonStrict(density, quality, ratio) ==
    IF FLe(density, DensityLow) THEN 1
    ELSE IF FLe(DensityArtifact, density) /\ FLe(quality, QualityArtifact)
         THEN 2
    ELSE IF FLe(ImageDominant, ratio) THEN 3
    ELSE IF FLe(DensityHigh, density) /\ FLe(QualityHigh, quality) THEN 4
    ELSE IF FLe(DensityModerate, density) /\ FLe(QualityModerate, quality)
         THEN 5
    ELSE 6
Decide(density, quality, ratio) ==
    IF FLt(density, DensityLow) THEN 1
    ELSE IF FGt(density, DensityArtifact) /\ FLt(quality, QualityArtifact)
         THEN 2
    ELSE IF FGt(ratio, ImageDominant) THEN 3
    ELSE IF FGt(density, DensityHigh) /\ FGt(quality, QualityHigh) THEN 4
    ELSE IF FGt(density, DensityModerate) /\ FGt(quality, QualityModerate)
         THEN 5
    ELSE 6
\* what each return statement of the decision logic returns
ReturnedDefaultNative(n) == IF n \in {4, 5, 6} THEN "NATIVE" ELSE "SCANNED"
Returned(n) == IF n \in {4, 5} THEN "NATIVE" ELSE "SCANNED"

RouterInit ==
    /\ doc \in Docs
    /\ pc = "open"
    /\ handle = "none"
    /\ total_text_area = 0
    /\ total_page_area = 0
    /\ text_quality = Zero
    /\ images_area_ratio = Zero
    /\ verdict = "none"
    /\ fired = 0
    /\ raised = "none"
    /\ propagated = FALSE
    /\ history = <<>>

RouterIdle ==
    /\ doc = <<>>
    /\ pc = "idle"
    /\ handle = "none"
    /\ total_text_area = 0
    /\ total_page_area = 0
    /\ text_quality = Zero
    /\ images_area_ratio = Zero
    /\ verdict = "none"
    /\ fired = 0
    /\ raised = "none"
    /\ propagated = FALSE
    /\ history = <<>>

\* doc = fitz.open(pdf_path); total_pages = len(doc); zero pages return
Open ==
    /\ pc = "open"
    /\ handle' = "open"
    /\ IF Len(doc) = 0
       THEN verdict' = "SCANNED" /\ pc' = "done"
       ELSE verdict' = verdict /\ pc' = "density"
    /\ UNCHANGED <<doc, total_text_area, total_page_area, text_quality,
                   images_area_ratio, fired, raised,
                   propagated, history,
                   postVars, extractorVars>>

\* total_text_area = 0.0 and total_page_area = 0.0: what the accumulators
\* start from, whatever they held before
StartAreaKept(held) == held
StartArea(held) == 0

\* the loop over the first min(5, total_pages) pages
MeasureDensity ==
    /\ pc = "density"
    /\ total_text_area' = StartArea(total_text_area) + SampledTextArea(doc)
    /\ total_page_area' = StartArea(total_page_area) + SampledPageArea(doc)
    /\ pc' = IF SampledPageArea(doc) = 0 THEN "close_empty" ELSE "quality"
    /\ UNCHANGED <<doc, handle, text_quality, images_area_ratio, verdict,
                   fired, raised,
                   propagated, history,
                   postVars, extractorVars>>

\* if total_page_area == 0: doc.close(); return "SCANNED"
CloseEmpty ==
    /\ pc = "close_empty"
    /\ handle' = "closed"
    /\ verdict' = "SCANNED"
    /\ pc' = "done"
    /\ UNCHANGED <<doc, total_text_area, total_page_area, text_quality,
                   images_area_ratio, fired, raised,
                   propagated, history,
                   postVars, extractorVars>>

\* text_quality = self._calculate_text_quality_score(doc)
ComputeQuality ==
    /\ pc = "quality"
    /\ text_quality' = QualityScore(doc)
    /\ pc' = "images"
    /\ UNCHANGED <<doc, handle, total_text_area, total_page_area,
                   images_area_ratio, verdict, fired, raised,
                   propagated, history,
                   postVars, extractorVars>>

\* image_analysis = self._analyze_image_content(doc)
AnalyzeImages ==
    /\ pc = "images"
    /\ images_area_ratio' = ImagesAreaRatio(doc)
    /\ pc' = "close"
    /\ UNCHANGED <<doc, handle, total_text_area, total_page_area,
                   text_quality, verdict, fired, raised,
                   propagated, history,
                   postVars, extractorVars>>

\* doc.close()
Close ==
    /\ pc = "close"
    /\ handle' = "closed"
    /\ pc' = "decide"
    /\ UNCHANGED <<doc, total_text_area, total_page_area, text_quality,
                   images_area_ratio, verdict, fired, raised,
                   propagated, history,
                   postVars, extractorVars>>

\* the decision rules
Classify ==
    /\ pc = "decide"
    /\ fired' = Decide(TextDensity(total_text_area, total_page_area),
                       text_quality, images_area_ratio)
    /\ verdict' = Returned(fired')
    /\ pc' = "done"
    /\ UNCHANGED <<doc, handle, total_text_area, total_page_area,
                   text_quality, images_area_ratio, raised, propagated,
                   history,
                   postVars, extractorVars>>

\* the places of identify_type that call the document collaborator
CallPoints == {"open", "density", "close_empty", "quality", "images", "close"}

\* which exceptions the handler of identify_type catches, by the place of
\* the failing call: `except Exception` catches them all
CaughtNowhereButOpen(where) == where = "open"
Caught(where) == where \in CallPoints

\* a collaborator call raises: except Exception -> return "SCANNED"
Fail ==
    /\ pc \in CallPoints
    /\ raised' = pc
    /\ IF Caught(pc)
       THEN verdict' = "SCANNED" /\ propagated' = FALSE
       ELSE verdict' = verdict /\ propagated' = TRUE
    /\ pc' = "done"
    /\ UNCHANGED <<doc, handle, total_text_area, total_page_area,
                   text_quality, images_area_ratio, fired, history,
                   postVars, extractorVars>>

\* identify_type as a function of the document, when no collaborator fails
Outcome(d) ==
    IF Len(d) = 0 THEN "SCANNED"
    ELSE IF SampledPageArea(d) = 0 THEN "SCANNED"
    ELSE Returned(Decide(TextDensity(SampledTextArea(d), SampledPageArea(d)),
                         QualityScore(d), ImagesAreaRatio(d)))

\* the documents a router is called on again and again
ThinDoc == <<TextPage, ScanPage, ScanPage, ScanPage, ScanPage>>
CallDocs == {<<>>, <<BlankPage>>, <<TextPage>>, <<ScanPage>>, ThinDoc,
             ThinDoc \o <<ScanPage>>,
             <<ImagePage(<<NoBBox>>)>>}

\* the caller calls identify_type once more, on the same or another
\* document: a new frame, whose locals hold nothing the code can rely on
CallAgain ==
    /\ pc = "done"
    /\ Len(history) + 1 < MaxRouterCalls
    /\ history' = Append(history, [doc |-> doc, verdict |-> verdict,
                                   raised |-> raised])
    /\ doc' \in CallDocs
    /\ pc' = "open"
    /\ handle' = "none"
    /\ verdict' = "none"
    /\ fired' = 0
    /\ raised' = "none"
    /\ UNCHANGED <<total_text_area, total_page_area, text_quality,
                   images_area_ratio, propagated, postVars, extractorVars>>

----------------------------------------------------------------------------
(* DoclingExtractor *)

\* self.converter = None
None == 0
NoArgs == [method |-> "none", do_ocr |-> FALSE, fast_mode |-> FALSE]
Methods == {"extract_complex_pdf", "extract_and_process"}
Args == [method : Methods, do_ocr : BOOLEAN, fast_mode : BOOLEAN]

\* __init__, for an extractor that n threads are going to call
ExtractorNew(n) ==
    /\ converter = None
    /\ built = <<>>
    /\ epc = [t \in 1..n |-> "idle"]
    /\ eargs = [t \in 1..n |-> NoArgs]
    /\ elocal = [t \in 1..n |-> None]
    /\ elog = <<>>
    /\ ecalls = 0
ExtractorIdle == ocr_enabled = TRUE /\ ExtractorNew(0)

\* a thread that is in no call
Resting == {"idle", "returned", "raised"}

\* thread t calls extract_complex_pdf or extract_and_process
StartCall(t) ==
    /\ epc[t] \in Resting
    /\ ecalls < MaxExtractorCalls
    /\ \E a \in Args : eargs' = [eargs EXCEPT ![t] = a]
    /\ epc' = [epc EXCEPT ![t] = "check"]
    /\ elocal' = [elocal EXCEPT ![t] = None]
    /\ ecalls' = ecalls + 1
    /\ UNCHANGED <<ocr_enabled, converter, built, elog, routerVars, postVars>>
\* the same, by a caller that waits for each call to end before the next
StartCallAlone(t) ==
    /\ \A u \in DOMAIN epc : epc[u] \in Resting
    /\ StartCall(t)

\* _get_converter: if self.converter is None
NeedsEngineAlways(c) == TRUE
NeedsEngine(c) == c = None
CheckConverter(t) ==
    /\ epc[t] = "check"
    /\ epc' = [epc EXCEPT ![t] = IF NeedsEngine(converter) THEN "build"
                                 ELSE "fetch"]
    /\ UNCHANGED <<ocr_enabled, converter, built, eargs, elocal, elog,
                   ecalls, routerVars, postVars>>

\* the pipeline options of the engine a call constructs
Options(a) ==
    [do_ocr |-> a.do_ocr /\ ocr_enabled,
     do_table_structure |-> FALSE,
     fast |-> a.fast_mode]
\* self.converter = DocumentConverter(format_options=format_options)
Build(t) ==
    /\ epc[t] = "build"
    /\ built' = Append(built, Options(eargs[t]))
    /\ converter' = Len(built) + 1
    /\ epc' = [epc EXCEPT ![t] = "fetch"]
    /\ UNCHANGED <<ocr_enabled, eargs, elocal, elog, ecalls, routerVars,
                   postVars>>
\* an import or a constructor of docling raises: the call ends with it
BuildFails(t) ==
    /\ epc[t] = "build"
    /\ epc' = [epc EXCEPT ![t] = "raised"]
    /\ UNCHANGED <<ocr_enabled, converter, built, eargs, elocal, elog,
                   ecalls, routerVars, postVars>>

\* return self.converter; converter = self._get_converter(do_ocr, fast_mode)
Fetch(t) ==
    /\ epc[t] = "fetch"
    /\ elocal' = [elocal EXCEPT ![t] = converter]
    /\ epc' = [epc EXCEPT ![t] = "convert"]
    /\ UNCHANGED <<ocr_enabled, converter, built, eargs, elog, ecalls,
                   routerVars, postVars>>

\* result = converter.convert(processed_file_path) and the two exports
Convert(t) ==
    /\ epc[t] = "convert"
    /\ elog' = Append(elog, elocal[t])
    /\ epc' = [epc EXCEPT ![t] =
                   IF eargs[t].method = "extract_and_process" THEN "post"
                   ELSE "returned"]
    /\ UNCHANGED <<ocr_enabled, converter, built, eargs, elocal, ecalls,
                   routerVars, postVars>>
\* the conversion or an export raises: the call ends with it
ConvertFails(t) ==
    /\ epc[t] = "convert"
    /\ elog' = Append(elog, elocal[t])
    /\ epc' = [epc EXCEPT ![t] = "raised"]
    /\ UNCHANGED <<ocr_enabled, converter, built, eargs, elocal, ecalls,
                   routerVars, postVars>>

\* extract_and_process: post_process_extraction or the basic results
PostProcess(t) ==
    /\ epc[t] = "post"
    /\ epc' = [epc EXCEPT ![t] = "returned"]
    /\ UNCHANGED <<ocr_enabled, converter, built, eargs, elocal, elog,
                   ecalls, routerVars, postVars>>

----------------------------------------------------------------------------
(* TextPostProcessor.clean_text *)

RECURSIVE CollapseFrom(_, _)
CollapseFrom(s, k) ==
    IF k > Len(s) THEN <<>>
    ELSE IF IsSpace(s[k])
         THEN (IF k > 1 /\ IsSpace(s[k - 1]) THEN <<>> ELSE <<" ">>)
                  \o CollapseFrom(s, k + 1)
    ELSE <<s[k]>> \o CollapseFrom(s, k + 1)
RECURSIVE CollapseBlanksFrom(_, _)
\* collapsing runs of spaces and tabs only, as [ \t]+ would
CollapseBlanksFrom(s, k) ==
    IF k > Len(s) THEN <<>>
    ELSE IF s[k] \in {" ", "\t"}
         THEN (IF k > 1 /\ s[k - 1] \in {" ", "\t"} THEN <<>> ELSE <<" ">>)
                  \o CollapseBlanksFrom(s, k + 1)
    ELSE <<s[k]>> \o CollapseBlanksFrom(s, k + 1)
CollapseBlanksOnly(s) == CollapseBlanksFrom(s, 1)
\* re.sub(r'\s+', ' ', text)
CollapseSpaces(s) == CollapseFrom(s, 1)

\* text.replace(old, new) for a one-character old
ReplaceAll(s, old, new) ==
    Flatten([k \in 1..Len(s) |-> IF s[k] = old THEN new ELSE <<s[k]>>])

\* the replacements table, in its insertion order
Replacements ==
    << <<"|", <<"I">> >>,
       <<LigatureFi, <<"f", "i">> >>,
       <<LigatureFl, <<"f", "l">> >>,
       <<PrivateBullet, <<Bullet>> >>,
       <<Bullet, <<Bullet>> >>,
       <<EnDash, <<"-">> >>,
       <<EmDash, <<"-", "-">> >> >>
RECURSIVE ApplyReplacements(_, _)
ApplyReplacements(s, k) ==
    IF k > Len(Replacements) THEN s
    ELSE ApplyReplacements(
             ReplaceAll(s, Replacements[k][1], Replacements[k][2]), k + 1)

\* length of the match of \s[^\w\s]{1,2}\s that starts at k, or 0
IsolatedAt(s, k) ==
    IF k + 3 <= Len(s) /\ IsSpace(s[k]) /\ IsSymbol(s[k + 1])
           /\ IsSymbol(s[k + 2]) /\ IsSpace(s[k + 3])
    THEN 4
    ELSE IF k + 2 <= Len(s) /\ IsSpace(s[k]) /\ IsSymbol(s[k + 1])
               /\ IsSpace(s[k + 2])
         THEN 3
    ELSE 0
RECURSIVE RemoveIsolatedFrom(_, _)
RemoveIsolatedFrom(s, k) ==
    IF k > Len(s) THEN <<>>
    ELSE IF IsolatedAt(s, k) > 0
         THEN <<" ">> \o RemoveIsolatedFrom(s, k + IsolatedAt(s, k))
    ELSE <<s[k]>> \o RemoveIsolatedFrom(s, k + 1)
\* re.sub(r'\s[^\w\s]{1,2}\s', ' ', text): leftmost matches, none overlapping
RemoveIsolated(s) == RemoveIsolatedFrom(s, 1)

RECURSIVE NormalizeFrom(_, _)
NormalizeFrom(s, k) ==
    IF k > Len(s) THEN <<>>
    ELSE IF s[k] = "\r"
         THEN <<"\n">> \o NormalizeFrom(
                  s, IF k < Len(s) /\ s[k + 1] = "\n" THEN k + 2 ELSE k + 1)
    ELSE <<s[k]>> \o NormalizeFrom(s, k + 1)
\* text.replace('\r\n', '\n').replace('\r', '\n')
NormalizeLineEndings(s) == NormalizeFrom(s, 1)

clean_text(s) ==
    IF s = <<>> THEN <<>>
    ELSE NormalizeLineEndings(
             RemoveIsolated(ApplyReplacements(Strip(CollapseSpaces(s)), 1)))

----------------------------------------------------------------------------
(* TextPostProcessor.structure_text *)

NonEmpty(s) == s # <<>>
StripAll(ps) == [k \in 1..Len(ps) |-> Strip(ps[k])]
\* [p.strip() for p in text.split('\n\n') if p.strip()]
Paragraphs(s) == SelectSeq(StripAll(SplitBlank(s)), NonEmpty)

LetterOrSpaceChars == LetterChars \cup SpaceChars

\* re.match(r'^[A-Z][A-Za-z\s]{0,50}[.:]?$', s) for a stripped s
HeadingShortLine(s) ==
    LET n == Len(s)
    IN  /\ n >= 1
        /\ s[1] \in UpperChars
        /\ \/ n - 1 <= 50 /\ AllIn(s, 2, n, LetterOrSpaceChars)
           \/ n >= 2 /\ s[n] \in {".", ":"} /\ n - 2 <= 50
                     /\ AllIn(s, 2, n - 1, LetterOrSpaceChars)
\* re.match(r'^\d+\.\s+[A-Z].*$', s) for a stripped s
HeadingNumbered(s) ==
    LET n == Len(s)
    IN  \E i \in 1..n : \E j \in 1..n :
            /\ i + j + 2 <= n
            /\ AllIn(s, 1, i, DigitChars)
            /\ s[i + 1] = "."
            /\ AllIn(s, i + 2, i + 1 + j, SpaceChars)
            /\ s[i + j + 2] \in UpperChars
            /\ NoneIn(s, i + j + 3, n, {"\n"})
\* re.match(r'^[A-Z].*\n={3,}$', s) for a stripped s
HeadingUnderlined(s) ==
    LET n == Len(s)
    IN  /\ n >= 1
        /\ s[1] \in UpperChars
        /\ \E m \in 2..n :
               /\ s[m] = "\n"
               /\ NoneIn(s, 2, m - 1, {"\n"})
               /\ n - m >= 3
               /\ AllIn(s, m + 1, n, {"="})
\* the loop over heading_patterns
IsHeading(p) ==
    LET s == Strip(p)
    IN  HeadingShortLine(s) \/ HeadingNumbered(s) \/ HeadingUnderlined(s)

Introduction ==
    <<"I", "n", "t", "r", "o", "d", "u", "c", "t", "i", "o", "n">>
Section(t, c) == [title |-> t, content |-> c]
RECURSIVE IdentifyFromKeepEmpty(_, _, _, _)
\* sectioning that saves every section it closes, with or without content
IdentifyFromKeepEmpty(ps, k, sections, current) ==
    IF k > Len(ps) THEN Append(sections, current)
    ELSE IF IsHeading(ps[k])
         THEN IdentifyFromKeepEmpty(ps, k + 1, Append(sections, current),
                                    Section(Strip(ps[k]), <<>>))
    ELSE IdentifyFromKeepEmpty(ps, k + 1, sections,
             Section(current.title, Append(current.content, ps[k])))
RECURSIVE IdentifyFromNoFinal(_, _, _, _)
\* sectioning that forgets the section still open at the end
IdentifyFromNoFinal(ps, k, sections, current) ==
    IF k > Len(ps) THEN sections
    ELSE IF IsHeading(ps[k])
         THEN IdentifyFromNoFinal(ps, k + 1,
                  IF current.content # <<>> THEN Append(sections, current)
                  ELSE sections,
                  Section(Strip(ps[k]), <<>>))
    ELSE IdentifyFromNoFinal(ps, k + 1, sections,
             Section(current.title, Append(current.content, ps[k])))
RECURSIVE IdentifyFrom(_, _, _, _)
IdentifyFrom(ps, k, sections, current) ==
    IF k > Len(ps)
    THEN \* add final section
         IF current.content # <<>> THEN Append(sections, current)
         ELSE sections
    ELSE IF IsHeading(ps[k])
         THEN IdentifyFrom(ps, k + 1,
                  IF current.content # <<>> THEN Append(sections, current)
                  ELSE sections,
                  Section(Strip(ps[k]), <<>>))
    ELSE IdentifyFrom(ps, k + 1, sections,
             Section(current.title, Append(current.content, ps[k])))
\* _identify_sections
IdentifySections(ps) ==
    IdentifyFrom(ps, 1, <<>>, Section(Introduction, <<>>))

\* _simple_sentence_splitting
IsSubstantialFromTen(s) == Len(s) >= 10
IsSubstantial(s) == Len(s) > 10
AddPeriod(ps) == [k \in 1..Len(ps) |-> Append(ps[k], ".")]
ParagraphSentences(p) ==
    AddPeriod(SelectSeq(StripAll(SplitTerminators(p)), IsSubstantial))
SimpleSentenceSplitting(ps) ==
    Flatten([k \in 1..Len(ps) |-> ParagraphSentences(ps[k])])

\* nltk's sent_tokenize, which this repository only calls: a sentence ends
\* after a run of terminators that is followed by white space
RECURSIVE SentTokenizeFrom(_, _, _)
SentTokenizeFrom(s, k, cur) ==
    LET done == IF Strip(cur) = <<>> THEN <<>> ELSE <<Strip(cur)>>
    IN  IF k > Len(s) THEN done
        ELSE IF IsSpace(s[k]) /\ k > 1 /\ s[k - 1] \in Terminators
             THEN done \o SentTokenizeFrom(s, k + 1, <<>>)
        ELSE SentTokenizeFrom(s, k + 1, Append(cur, s[k]))
SentTokenize(ps) ==
    Flatten([k \in 1..Len(ps) |-> SentTokenizeFrom(ps[k], 1, <<>>)])

\* the try block of structure_text.  tok tells how the tokenizer behaves:
\* tok.punkt is FALSE when the import raises, and sent_tokenize raises on
\* paragraph number tok.raises_at (never when that is 0 or no such paragraph
\* exists)
TokenizerRaises(ps, tok) == ~tok.punkt \/ tok.raises_at \in 1..Len(ps)
\* the sentences the loop has put into the list when the try block is left
TokenizedBefore(ps, tok) ==
    IF ~tok.punkt THEN <<>>
    ELSE IF tok.raises_at \in 1..Len(ps)
         THEN SentTokenize(SubSeq(ps, 1, tok.raises_at - 1))
    ELSE SentTokenize(ps)
\* which failures of the tokenizer the handler catches: `except:` names no
\* exception class, so it catches the failed import and every exception of
\* sent_tokenize
CatchesImportOnly(tok) == ~tok.punkt
Catches(tok) == TRUE
\* the except block: sentences = self._simple_sentence_splitting(paragraphs)
RecoverExtending(partial, fallback) == partial \o fallback
Recover(partial, fallback) == fallback
Sentences(ps, tok) ==
    IF TokenizerRaises(ps, tok)
    THEN Recover(TokenizedBefore(ps, tok), SimpleSentenceSplitting(ps))
    ELSE TokenizedBefore(ps, tok)

\* structure_text
StructureNonEmpty(s, tok) ==
    LET paragraphs == Paragraphs(s)
        sections == IdentifySections(paragraphs)
        sentences == Sentences(paragraphs, tok)
    IN  IF TokenizerRaises(paragraphs, tok) /\ ~Catches(tok)
        THEN [error |-> "raised by the tokenizer"]
        ELSE [raw |-> s, sections |-> sections, paragraphs |-> paragraphs,
              sentences |-> sentences,
              stats |-> [char_count |-> Len(s),
                         paragraph_count |-> Len(paragraphs),
                         sentence_count |-> Len(sentences),
                         section_count |-> Len(sections)]]
structure_text(s, tok) ==
    IF s = <<>>
    THEN [raw |-> <<>>, sections |-> <<>>, paragraphs |-> <<>>,
          sentences |-> <<>>]
    ELSE StructureNonEmpty(s, tok)

----------------------------------------------------------------------------
(* TextPostProcessor.extract_keywords *)

\* the fallback stopwords list
FallbackStopWords ==
    {<<"t", "h", "e">>, <<"a">>, <<"a", "n">>, <<"a", "n", "d">>,
     <<"o", "r">>, <<"b", "u", "t">>, <<"i", "n">>, <<"o", "n">>,
     <<"a", "t">>, <<"t", "o">>, <<"f", "o", "r">>, <<"o", "f">>,
     <<"w", "i", "t", "h">>, <<"b", "y">>, <<"i", "s">>, <<"a", "r", "e">>,
     <<"w", "a", "s">>, <<"w", "e", "r", "e">>, <<"b", "e">>,
     <<"b", "e", "e", "n">>, <<"h", "a", "v", "e">>, <<"h", "a", "s">>,
     <<"h", "a", "d">>, <<"d", "o">>, <<"d", "o", "e", "s">>,
     <<"d", "i", "d">>, <<"w", "i", "l", "l">>, <<"w", "o", "u", "l", "d">>,
     <<"c", "o", "u", "l", "d">>, <<"s", "h", "o", "u", "l", "d">>,
     <<"m", "a", "y">>, <<"m", "i", "g", "h", "t">>, <<"m", "u", "s", "t">>,
     <<"c", "a", "n">>}
\* stopwords.words('english') of nltk, data this repository only loads: a
\* sample of its entries
NltkStopWords ==
    {<<"t", "h", "e">>, <<"a", "n", "d">>, <<"s", "h", "e">>,
     <<"h", "e", "r">>, <<"n", "o", "t">>, <<"w", "a", "s">>,
     <<"a", "t">>, <<"a">>}
StopWords(have) == IF have THEN NltkStopWords ELSE FallbackStopWords

LowerAll(s) == [k \in 1..Len(s) |-> Lower(s[k])]

RECURSIVE WordRunsFrom(_, _, _)
WordRunsFrom(s, k, cur) ==
    LET done == IF cur = <<>> THEN <<>> ELSE <<cur>>
    IN  IF k > Len(s) THEN done
        ELSE IF IsWord(s[k]) THEN WordRunsFrom(s, k + 1, Append(cur, s[k]))
        ELSE done \o WordRunsFrom(s, k + 1, <<>>)
\* the maximal runs of \w characters: \b holds only at their two ends
WordRuns(s) == WordRunsFrom(s, 1, <<>>)
IsToken(w) == Len(w) >= 3 /\ AllIn(w, 1, Len(w), LetterChars)
\* re.findall(r'\b[a-zA-Z]{3,}\b', text.lower())
Tokens(s) == SelectSeq(WordRuns(LowerAll(s)), IsToken)

KeepAllWords(words, stop) == words
\* [word for word in words if word not in stop_words]
FilterStopWords(words, stop) ==
    LET Kept(w) == w \notin stop IN SelectSeq(words, Kept)

\* the keys of Counter(words), in insertion order
RECURSIVE DistinctFrom(_, _, _)
DistinctFrom(ws, k, seen) ==
    IF k > Len(ws) THEN seen
    ELSE IF \E j \in 1..Len(seen) : seen[j] = ws[k]
         THEN DistinctFrom(ws, k + 1, seen)
    ELSE DistinctFrom(ws, k + 1, Append(seen, ws[k]))
Distinct(ws) == DistinctFrom(ws, 1, <<>>)
Freq(ws, w) == Cardinality({k \in 1..Len(ws) : ws[k] = w})

\* most_common with equal counts in reverse insertion order
MostCommonLaterFirst(ws, n) ==
    LET keys == Distinct(ws)
        Before(i, j) == \/ Freq(ws, keys[i]) > Freq(ws, keys[j])
                        \/ Freq(ws, keys[i]) = Freq(ws, keys[j]) /\ i > j
        Rank(i) == 1 + Cardinality({j \in 1..Len(keys) : Before(j, i)})
        m == IF n <= 0 THEN 0 ELSE Min(n, Len(keys))
    IN  [p \in 1..m |-> keys[CHOOSE i \in 1..Len(keys) : Rank(i) = p]]
\* Counter(words).most_common(n): by descending count, equal counts in
\* insertion order; nothing for n <= 0
MostCommon(ws, n) ==
    LET keys == Distinct(ws)
        Before(i, j) == \/ Freq(ws, keys[i]) > Freq(ws, keys[j])
                        \/ Freq(ws, keys[i]) = Freq(ws, keys[j]) /\ i < j
        Rank(i) == 1 + Cardinality({j \in 1..Len(keys) : Before(j, i)})
        m == IF n <= 0 THEN 0 ELSE Min(n, Len(keys))
    IN  [p \in 1..m |-> keys[CHOOSE i \in 1..Len(keys) : Rank(i) = p]]

extract_keywords(s, n, have) ==
    MostCommon(FilterStopWords(Tokens(s), StopWords(have)), n)

----------------------------------------------------------------------------
(* TextPostProcessor.assess_quality *)

\* round(x, 2) of a fraction x: the nearest hundredth.  Python rounds the
\* float that stands for x, so when x lies exactly between two hundredths
\* the direction depends on that float's error: up tells it
Round2(x, up) ==
    LET a == FNorm(IF x[1] < 0 THEN Frac(-x[1], x[2]) ELSE x)
        tenths == (10 * a[1]) \div a[2]
        r1 == (10 * a[1]) % a[2]
        q == 10 * tenths + (10 * r1) \div a[2]
        r == (10 * r1) % a[2]
        h == IF 2 * r > a[2] \/ (2 * r = a[2] /\ up) THEN q + 1 ELSE q
    IN  Frac(IF x[1] < 0 THEN -h ELSE h, 100)
FMax(x, y) == IF FLt(x, y) THEN y ELSE x
FMin(x, y) == IF FLt(x, y) THEN x ELSE y

SumLen(ps) == SumOver([k \in 1..Len(ps) |-> Len(ps[k])], 1, Len(ps))
SumWords(ps) ==
    SumOver([k \in 1..Len(ps) |-> WordCount(ps[k])], 1, Len(ps))

\* the guard in front of each division by a count: if len(...) == 0
NoneCountedNever(n) == FALSE
NoneCounted(n) == n = 0

\* readability = max(0.0, 1.0 - abs(chars / len(words) - 5) / 10)
ReadabilityUnfloored(s) ==
    LET w == WordCount(s)
    IN  IF w = 0 THEN Zero
        ELSE Frac(10 * w - Abs(Len(s) - 5 * w), 10 * w)
Readability(s) ==
    LET w == WordCount(s)
    IN  IF NoneCounted(w) THEN Zero
        ELSE FMax(Zero, Frac(10 * w - Abs(Len(s) - 5 * w), 10 * w))

\* coherence = max(0.0, 1.0 - abs(avg_sentence_length - 20) / 50)
Coherence(s) ==
    LET sentences == SimpleSentenceSplitting(<<s>>)
        n == Len(sentences)
    IN  IF NoneCounted(n) THEN Zero
        ELSE FMax(Zero,
                  Frac(50 * n - Abs(SumWords(sentences) - 20 * n), 50 * n))

\* completeness = min(1.0, avg_paragraph_length / 200)
HasContent(p) == Strip(p) # <<>>
Completeness(s) ==
    LET paragraphs == SelectSeq(SplitBlank(s), HasContent)
        m == Len(paragraphs)
    IN  IF NoneCounted(m) THEN Zero
        ELSE FMin(One, Frac(SumLen(paragraphs), 200 * m))

\* the counts assess_quality divides by: len(words), len(sentences) and
\* len(paragraphs)
Divisors(s) ==
    <<WordCount(s), Len(SimpleSentenceSplitting(<<s>>)),
      Len(SelectSeq(SplitBlank(s), HasContent))>>
\* a division is reached although its divisor is 0
DividesByZero(s) ==
    LET counts == Divisors(s)
    IN  \E k \in 1..3 : ~NoneCounted(counts[k]) /\ counts[k] = 0
ZeroDivisionError == [error |-> "ZeroDivisionError"]

\* the three sub-scores before rounding, or the error of a division
Measure(s) ==
    IF DividesByZero(s) THEN ZeroDivisionError
    ELSE [readability |-> Readability(s), coherence |-> Coherence(s),
          completeness |-> Completeness(s)]
\* (readability + coherence + completeness) / 3
Overall(m) == FDiv(FAdd(FAdd(m.readability, m.coherence), m.completeness), 3)

\* what assess_quality(s) returns or raises.  m is Measure(s), and ties[k]
\* is the direction in which metric k is rounded from a midpoint
assess_quality(s, m, ties) ==
    IF s = <<>>
    THEN [readability |-> Zero, coherence |-> Zero, completeness |-> Zero]
    ELSE IF "error" \in DOMAIN m THEN m
    ELSE [readability |-> Round2(m.readability, ties.readability),
          coherence |-> Round2(m.coherence, ties.coherence),
          completeness |-> Round2(m.completeness, ties.completeness),
          overall |-> Round2(Overall(m), ties.overall)]

----------------------------------------------------------------------------
(* The post-processor's operations *)

\* nltk with its data in place
NltkLoads == [punkt |-> TRUE, stopwords |-> TRUE, raises_at |-> 0]

PostIdle ==
    /\ text = <<>>
    /\ op = "none"
    /\ result = <<>>
    /\ calls = 0
    /\ num_keywords = 0
    /\ nltk = NltkLoads

\* cleaned = processor.clean_text(text)
CleanText ==
    /\ op \in {"none", "feed"}
    /\ result' = clean_text(text)
    /\ op' = "clean_text"
    /\ calls' = calls + 1
    /\ UNCHANGED <<text, num_keywords, nltk, routerVars, extractorVars>>

\* the caller hands the cleaned text to clean_text again
FeedBack ==
    /\ op = "clean_text"
    /\ calls < MaxCalls
    /\ text' = result
    /\ op' = "feed"
    /\ UNCHANGED <<result, calls, num_keywords, nltk, routerVars, extractorVars>>

\* processor.structure_text(text)
StructureText ==
    /\ op = "none"
    /\ result' = structure_text(text, nltk)
    /\ op' = "structure_text"
    /\ calls' = calls + 1
    /\ UNCHANGED <<text, num_keywords, nltk, routerVars, extractorVars>>

\* processor.extract_keywords(text, num_keywords)
ExtractKeywords ==
    /\ op = "none"
    /\ result' = extract_keywords(text, num_keywords, nltk.stopwords)
    /\ op' = "extract_keywords"
    /\ calls' = calls + 1
    /\ UNCHANGED <<text, num_keywords, nltk, routerVars, extractorVars>>

\* processor.assess_quality(text)
AssessQuality ==
    /\ op = "none"
    /\ LET m == Measure(text)
       IN  \E ties \in [{"readability", "coherence", "completeness",
                          "overall"} -> BOOLEAN] :
               result' = assess_quality(text, m, ties)
    /\ op' = "assess_quality"
    /\ calls' = calls + 1
    /\ UNCHANGED <<text, num_keywords, nltk, routerVars, extractorVars>>

\* extract_keywords(self, text, num_keywords: int = 10)
DefaultNumKeywords == 10

\* post_process_extraction(markdown_content): clean, then structure,
\* keywords and quality of the cleaned text
PostProcessExtraction ==
    /\ op = "none"
    /\ \E cleaned_text \in {clean_text(text)} :
       \E structured_text \in {structure_text(cleaned_text, nltk)} :
       \E keywords \in {extract_keywords(cleaned_text, DefaultNumKeywords,
                                          nltk.stopwords)} :
       \E m \in {Measure(cleaned_text)} :
       \E quality_metrics \in
               {assess_quality(cleaned_text, m, ties) :
                    ties \in [{"readability", "coherence", "completeness",
                               "overall"} -> BOOLEAN]} :
           result' = [cleaned_text |-> cleaned_text,
                      structured_text |-> structured_text,
                      keywords |-> keywords,
                      quality_metrics |-> quality_metrics,
                      original_markdown |-> text]
    /\ op' = "post_process_extraction"
    /\ calls' = calls + 1
    /\ UNCHANGED <<text, num_keywords, nltk, routerVars, extractorVars>>

\* the inputs of clean_text
CleanChars == {"a", " ", "."}
CleanPieces == {"|", LigatureFi, LigatureFl, PrivateBullet, Bullet, EnDash,
                EmDash, "a", " ", "\n", "\r", "\t"}
CleanInputs ==
    SeqsUpTo(CleanChars, MaxCleanLen) \cup SeqsUpTo(CleanPieces, MaxCleanPieces)

\* the inputs of structure_text
FirstParagraph == <<"A", "A", "A", ".">>
SecondParagraph ==
    <<"B", "B", "B", " ", "i", "s", " ", "a", " ", "t", "e", "s", "t",
          " ", "s", "e", "n", "t", "e", "n", "c", "e", " ", "w", "i", "t",
          "h", " ", "s", "e", "v", "e", "r", "a", "l", " ", "w", "o", "r",
          "d", "s", " ", "i", "n", " ", "i", "t", ".">>
BlankLine == <<"\n", "\n">>
ScenarioText == FirstParagraph \o BlankLine \o SecondParagraph
StructPieces ==
    {FirstParagraph, SecondParagraph, BlankLine,
     <<"i", "t", " ", "w", "a", "s", " ", "a", " ", "d", "a", "y", ",",
      " ", "w", "a", "s", " ", "i", "t", "?">>,
     <<"1", ".", " ", "A", "b">>,
     <<"A", "\n", "=", "=", "=">>,
     <<"b">>, <<" ">>, <<"\n">>}
StructInputs == {Flatten(ps) : ps \in SeqsUpTo(StructPieces, MaxStructPieces)}

\* texts made of whole paragraphs: three headings, one for each pattern,
\* and three paragraphs of content, whose fragments have 20, 10 and 11
\* characters
ParagraphKinds ==
    {FirstParagraph,
     <<"1", ".", " ", "A", "b">>,
     <<"A", "\n", "=", "=", "=">>,
     <<"i", "t", " ", "w", "a", "s", " ", "a", " ", "d", "a", "y", ",",
      " ", "w", "a", "s", " ", "i", "t", "?">>,
     <<"a", "b", "c", "d", "e", "f", "g", "h", "i", "j", "!">>,
     <<"a", "b", "c", "d", "e", "f", "g", "h", "i", "j", "k", "?", " ",
      "n", "o">>}
JoinParagraphs(ps) == Flatten([k \in 1..Len(ps) |-> ps[k] \o BlankLine])
ParagraphInputs ==
    {JoinParagraphs(ps) : ps \in SeqsUpTo(ParagraphKinds, MaxParagraphs)}

\* the inputs of extract_keywords
KeywordPieces ==
    {<<"t", "h", "e", " ">>, <<"T", "h", "e", " ">>, <<"c", "a", "t", " ">>,
     <<"d", "o", "g", " ">>, <<"e", "m", "u", " ">>, <<"o", "x", " ">>,
     <<"c", "a", "t">>, <<"1">>}
KeywordInputs ==
    {Flatten(ps) : ps \in SeqsUpTo(KeywordPieces, MaxKeywordPieces)}

\* the inputs of assess_quality: a word of 201 letters, 72 one-letter words
LongWord == Rep("a", 201)
ManyWords == Flatten(Rep(<<"a", " ">>, 72))
QualityPieces == {<<"a">>, <<" ">>, <<".">>, BlankLine, LongWord, ManyWords}
QualityInputs ==
    {Flatten(ps) : ps \in SeqsUpTo(QualityPieces, MaxQualityPieces)}

\* the markdown handed to post_process_extraction: paragraphs, headings of
\* each pattern, line breaks of each kind, and characters clean_text
\* rewrites or removes
MarkdownPieces ==
    {FirstParagraph,
     <<"i", "t", " ", "w", "a", "s", " ", "a", " ", "d", "a", "y", ",",
      " ", "w", "a", "s", " ", "i", "t", "?">>,
     BlankLine \o FirstParagraph \o BlankLine \o <<"i", "t", "\r">>,
     <<"1", ".", " ", "A", "b">>,
     <<"A", "\n", "=", "=", "=">>,
     BlankLine, <<"\r", "\n">>, <<" ">>, <<"|">>, <<".">>}
MarkdownInputs ==
    {Flatten(ps) : ps \in SeqsUpTo(MarkdownPieces, MaxMarkdownPieces)}

PostStart ==
    /\ op = "none"
    /\ result = <<>>
    /\ calls = 0

\* clean_text, applied to a text and again to its own output
InitClean ==
    /\ RouterIdle /\ PostStart /\ ExtractorIdle
    /\ text \in CleanInputs
    /\ num_keywords = 0
    /\ nltk = NltkLoads
NextClean ==
    \/ CleanText
    \/ FeedBack
SpecClean == InitClean /\ [][NextClean]_vars

\* structure_text
InitStructure ==
    /\ RouterIdle /\ PostStart /\ ExtractorIdle
    /\ text \in StructInputs
    /\ num_keywords = 0
    /\ nltk \in [punkt : BOOLEAN, stopwords : {TRUE}, raises_at : {0}]
NextStructure ==
    \/ StructureText
SpecStructure == InitStructure /\ [][NextStructure]_vars

\* structure_text on texts of several paragraphs, with a tokenizer that
\* may fail
InitParagraphs ==
    /\ RouterIdle /\ PostStart /\ ExtractorIdle
    /\ text \in ParagraphInputs
    /\ num_keywords = 0
    /\ nltk \in {t \in [punkt : BOOLEAN, stopwords : {TRUE},
                         raises_at : 0..MaxRaisesAt] :
                     t.punkt \/ t.raises_at = 0}
NextParagraphs ==
    \/ StructureText
SpecParagraphs == InitParagraphs /\ [][NextParagraphs]_vars

\* post_process_extraction on the markdown of an extraction
InitPipeline ==
    /\ RouterIdle /\ PostStart /\ ExtractorIdle
    /\ text \in MarkdownInputs
    /\ num_keywords = 0
    /\ nltk \in [punkt : BOOLEAN, stopwords : BOOLEAN, raises_at : {0}]
NextPipeline ==
    \/ PostProcessExtraction
SpecPipeline == InitPipeline /\ [][NextPipeline]_vars

\* extract_keywords
InitKeywords ==
    /\ RouterIdle /\ PostStart /\ ExtractorIdle
    /\ text \in KeywordInputs
    /\ num_keywords \in 0..MaxKeywords
    /\ nltk \in [punkt : {TRUE}, stopwords : BOOLEAN, raises_at : {0}]
NextKeywords ==
    \/ ExtractKeywords
SpecKeywords == InitKeywords /\ [][NextKeywords]_vars

\* assess_quality
InitQuality ==
    /\ RouterIdle /\ PostStart /\ ExtractorIdle
    /\ text \in QualityInputs
    /\ num_keywords = 0
    /\ nltk = NltkLoads
NextQuality ==
    \/ AssessQuality
SpecQuality == InitQuality /\ [][NextQuality]_vars

----------------------------------------------------------------------------
(* Claims about PDFRouter.identify_type, checked under Spec *)

HasReturned == pc = "done"
NoFailure == raised = "none"
\* the call went through the decision logic
Decided == HasReturned /\ fired # 0
Density == TextDensity(total_text_area, total_page_area)

\* C1: identify_type never raises to its caller: whenever a call of the
\* document collaborator fails (open, page read, text blocks, text, images,
\* close), no exception leaves identify_type and it returns SCANNED.
C1_NeverRaises ==
    /\ ~propagated
    /\ raised # "none" => pc = "done" /\ verdict = "SCANNED"
    /\ pc = "done" => verdict \in {"NATIVE", "SCANNED"}
\* a failure during image enumeration, after density and quality were taken
C1_Witness ==
    /\ raised = "images"
    /\ verdict = "SCANNED"
    /\ total_page_area > 0

\* C2: a document with zero pages, with zero sampled page area (first 5
\* pages) or with zero raw characters on its first 3 pages is SCANNED,
\* whatever its text density and image coverage.
C2_EmptyIsScanned ==
    (HasReturned /\ (Len(doc) = 0 \/ SampledPageArea(doc) = 0
                     \/ TotalChars(doc) = 0))
        => verdict = "SCANNED"
\* no characters, yet a text density above every density threshold and no
\* image: only the quality guard keeps the verdict SCANNED
C2_Witness ==
    /\ HasReturned /\ NoFailure
    /\ Len(doc) > 0 /\ total_page_area > 0
    /\ TotalChars(doc) = 0
    /\ FGt(Density, DensityHigh)
    /\ FEq(images_area_ratio, Zero)
    /\ verdict = "SCANNED"

\* the ordered rule list as the claim states it
ListedRule(n, d, q, r) ==
    CASE n = 1 -> FLt(d, Frac(20, 10))
      [] n = 2 -> FGt(d, Frac(50, 10)) /\ FLt(q, Frac(3, 10))
      [] n = 3 -> FGt(r, Frac(7, 10))
      [] n = 4 -> FGt(d, Frac(100, 10)) /\ FGt(q, Frac(4, 10))
      [] n = 5 -> FGt(d, Frac(30, 10)) /\ FGt(q, Frac(5, 10))
      [] n = 6 -> TRUE
ListedVerdict(n) ==
    CASE n \in {1, 2, 3, 6} -> "SCANNED"
      [] n \in {4, 5} -> "NATIVE"
FirstListed(d, q, r) ==
    CHOOSE n \in 1..6 :
        /\ ListedRule(n, d, q, r)
        /\ \A m \in 1..(n - 1) : ~ListedRule(m, d, q, r)

\* C3: the verdict is the one of the first matching rule of the ordered
\* list (density<2 SCANNED; density>5 and quality<0.3 SCANNED; image
\* ratio>0.7 SCANNED; density>10 and quality>0.4 NATIVE; density>3 and
\* quality>0.5 NATIVE; else SCANNED).
C3_FirstMatchWins ==
    Decided =>
        /\ fired = FirstListed(Density, text_quality, images_area_ratio)
        /\ verdict = ListedVerdict(fired)
\* a SCANNED rule overriding a NATIVE rule that matches too
C3_Witness ==
    /\ Decided
    /\ ListedRule(3, Density, text_quality, images_area_ratio)
    /\ ListedRule(4, Density, text_quality, images_area_ratio)
    /\ verdict = "SCANNED"

\* the triple sits exactly on a threshold used by rule n
OnThreshold(n, d, q, r) ==
    CASE n = 1 -> FEq(d, Frac(2, 1))
      [] n = 2 -> FEq(d, Frac(5, 1)) \/ FEq(q, Frac(3, 10))
      [] n = 3 -> FEq(r, Frac(7, 10))
      [] n = 4 -> FEq(d, Frac(10, 1)) \/ FEq(q, Frac(4, 10))
      [] n = 5 -> FEq(d, Frac(3, 1)) \/ FEq(q, Frac(5, 10))

\* C4: the comparisons are strict: with a value exactly on a threshold of
\* a rule, that rule does not return and evaluation goes on to a later
\* rule (unless an earlier rule had already returned).
C4_StrictComparisons ==
    Decided =>
        \A n \in 1..5 :
            OnThreshold(n, Density, text_quality, images_area_ratio)
                => fired # n
\* image ratio exactly 0.7 with dense, good text: rule 3 is passed over and
\* rule 4 returns NATIVE
C4_Witness ==
    /\ Decided
    /\ FEq(images_area_ratio, Frac(7, 10))
    /\ fired = 4
    /\ verdict = "NATIVE"

InUnitInterval(x) == FLe(Zero, x) /\ FLe(x, One)

\* the call has computed text_quality
QualityTaken ==
    \/ pc \in {"images", "close", "decide"}
    \/ pc = "done" /\ (fired # 0 \/ raised \in {"images", "close"})
\* the raw text of the first 3 pages, or of all pages if there are fewer
SampleText(d) ==
    Flatten([k \in 1..(IF Len(d) < 3 THEN Len(d) ELSE 3) |-> d[k].text])

\* C14: the text quality score is taken over at most the first 3 pages as
\* 0.7 * (alphanumeric characters / characters) + 0.3 * (spaces /
\* characters), is 0 when these pages hold no character, and lies in [0,1].
C14_QualityScore ==
    QualityTaken =>
        LET sample == SampleText(doc)
            total == Len(sample)
            alnum == Cardinality({k \in 1..total : IsAlnum(sample[k])})
            spaces == Cardinality({k \in 1..total : sample[k] = " "})
        IN  /\ total = 0 => FEq(text_quality, Zero)
            /\ total > 0 =>
                   FEq(text_quality,
                       FAdd(FMul(Frac(7, 10), Frac(alnum, total)),
                            FMul(Frac(3, 10), Frac(spaces, total))))
            /\ InUnitInterval(text_quality)
\* a document whose fourth page holds text and whose third holds none: the
\* score is that of the first three pages, below the score of all four
C14_Witness ==
    /\ Decided
    /\ Len(doc) >= 4
    /\ doc[3].text = <<>>
    /\ doc[4].text # <<>>
    /\ FGt(text_quality, Zero)
    /\ FEq(text_quality, Frac(54, 100))

\* the call has analysed the images
ImagesTaken ==
    \/ pc \in {"close", "decide"}
    \/ pc = "done" /\ (fired # 0 \/ raised = "close")
\* the number of the pages _analyze_image_content looks at
ImageSample(d) == IF Len(d) < 3 THEN Len(d) ELSE 3
\* some image of these pages has no bounding box
BBoxFails(d) ==
    \E k \in 1..ImageSample(d) : \E i \in 1..Len(d[k].images) :
        d[k].images[i] = NoBBox
\* what an image adds to the image area
ImageShare(p, img) == IF img = NoBBox THEN Frac(p.area, 2) ELSE Frac(img, 1)
RECURSIVE ImageShares(_, _)
\* the image area of the images of page p from number i on
ImageShares(p, i) ==
    IF i > Len(p.images) THEN Zero
    ELSE FAdd(ImageShare(p, p.images[i]), ImageShares(p, i + 1))
RECURSIVE PageShares(_, _)
\* the image area of the sampled pages of d from number k on
PageShares(d, k) ==
    IF k > ImageSample(d) THEN Zero
    ELSE FAdd(ImageShares(d[k], 1), PageShares(d, k + 1))
RECURSIVE PageAreas(_, _)
PageAreas(d, k) ==
    IF k > ImageSample(d) THEN 0 ELSE d[k].area + PageAreas(d, k + 1)
ExpectedImageRatio(d) ==
    IF PageAreas(d, 1) = 0 THEN Zero
    ELSE FDiv(PageShares(d, 1), PageAreas(d, 1))

\* C15: when the bounding box of an image cannot be obtained, the image
\* counts as 50% of its page's area, the other images and pages are still
\* analysed, and the call goes on to the decision rules: the failure alone
\* does not make it return the error fallback.
C15_BBoxFallback ==
    (ImagesTaken /\ BBoxFails(doc)) =>
        /\ FEq(images_area_ratio, ExpectedImageRatio(doc))
        /\ (HasReturned /\ NoFailure) =>
               /\ fired # 0
               /\ verdict = Returned(Decide(Density, text_quality,
                                            ExpectedImageRatio(doc)))
\* two pages: a failing and a measured image on the first, a failing image
\* on the second; (50 + 30 + 50) / 200 is below 0.7 and the verdict NATIVE
C15_Witness ==
    /\ Decided /\ NoFailure
    /\ Len(doc) = 2
    /\ doc[1].images = <<NoBBox, 30>>
    /\ doc[2].images = <<NoBBox>>
    /\ FEq(images_area_ratio, Frac(65, 100))
    /\ verdict = "NATIVE"

\* a page with the text blocks of TextPage, but with a text of symbols only
\* and a large image
GarbledPage ==
    Page(100, <<Block(8, 0), Block(4, 0)>>, MkText(0, 0, 10), <<90>>)
\* the documents that have the first n pages of d and then at most m pages
\* of any kind
SamePrefix(d, n, m) ==
    {SubSeq(d, 1, n) \o t : t \in SeqsUpTo(BasicPages \cup {GarbledPage}, m)}
\* the text density identify_type computes for d
DensityOf(d) == TextDensity(SampledTextArea(d), SampledPageArea(d))

\* C16: the verdict depends on the sampled pages only.  A document that has
\* the same first 5 pages gets the same verdict, whatever follows them; and
\* a document that has the same first 3 pages and the same text density
\* gets the same verdict, whatever the text and the images of its pages 4
\* and 5.
C16_SampledPagesOnly ==
    (HasReturned /\ NoFailure) =>
        /\ Len(doc) >= 5 =>
               \A d \in SamePrefix(doc, 5, MaxPages - 5 + 1) :
                   Outcome(d) = verdict
        /\ (Len(doc) >= 3 /\ SampledPageArea(doc) > 0) =>
               \A d \in SamePrefix(doc, 3, 2) :
                   (SampledPageArea(d) > 0
                    /\ FEq(DensityOf(d), DensityOf(doc)))
                       => Outcome(d) = verdict
\* six pages, NATIVE on the density 3.2 of the first five, although the
\* density of all six is below 3 and pages 4 and 5 are scans without text
C16_Witness ==
    /\ Decided /\ NoFailure
    /\ Len(doc) = 6
    /\ doc[4] = ScanPage /\ doc[5] = ScanPage
    /\ verdict = "NATIVE"
    /\ FGt(Density, DensityModerate)
    /\ FLt(Frac(100 * SumOver([k \in 1..6 |-> PageTextArea(doc[k])], 1, 6),
                 SumOver([k \in 1..6 |-> doc[k].area], 1, 6)),
           DensityModerate)

----------------------------------------------------------------------------
\* C24: whenever identify_type returns NATIVE, the document has at least
\* one page and a non-zero sampled page area, its text density is above
\* 3.0, its text quality above 0.4 and its image area ratio at most 0.7.
C24_NativeBounds ==
    (HasReturned /\ verdict = "NATIVE") =>
        /\ Len(doc) >= 1
        /\ SampledPageArea(doc) # 0
        /\ FGt(DensityOf(doc), Frac(30, 10))
        /\ FGt(QualityScore(doc), Frac(4, 10))
        /\ FLe(ImagesAreaRatio(doc), Frac(7, 10))
        /\ FEq(Density, DensityOf(doc))
        /\ FEq(text_quality, QualityScore(doc))
        /\ FEq(images_area_ratio, ImagesAreaRatio(doc))
\* NATIVE by the high-density rule with a quality the moderate rule would
\* refuse, and with images on the page
C24_Witness ==
    /\ HasReturned /\ verdict = "NATIVE"
    /\ fired = 4
    /\ FLe(text_quality, QualityModerate)
    /\ FGt(images_area_ratio, Zero)

\* C25: the text quality score never exceeds 0.7: alphanumeric characters
\* and spaces are disjoint, so the two ratios sum to at most 1 and
\* 0.7 * alnum_ratio + 0.3 * space_ratio is at most 0.7, which it reaches
\* only for a text made of alphanumeric characters alone.
C25_QualityCap ==
    QualityTaken =>
        LET sample == SampleText(doc)
            total == Len(sample)
            alnum == Cardinality({k \in 1..total : IsAlnum(sample[k])})
            spaces == Cardinality({k \in 1..total : sample[k] = " "})
        IN  /\ alnum + spaces <= total
            /\ FLe(text_quality, Frac(7, 10))
            /\ FEq(text_quality, Frac(7, 10)) <=> (total > 0 /\ alnum = total)
\* a text of alphanumeric characters alone, at the cap
C25_Witness ==
    /\ Decided
    /\ SampleText(doc) # <<>>
    /\ FEq(text_quality, Frac(7, 10))
    /\ verdict = "NATIVE"

\* C22: on every path by which identify_type returns after the document
\* was opened (zero pages, zero page area, each decision rule, the
\* exception fallback), the document handle has been closed before the
\* return.
C22_ClosedOnReturn ==
    (HasReturned /\ handle # "none") => handle = "closed"

----------------------------------------------------------------------------
(* Claims about TextPostProcessor *)

\* C5 (SpecClean): clean_text is idempotent: cleaning the output of
\* clean_text once more returns it unchanged.
C5_Idempotent ==
    (op = "clean_text" /\ calls = 2) => result = text

StatsKeys ==
    {"char_count", "paragraph_count", "sentence_count", "section_count"}

\* C6 (SpecStructure): structure_text of the empty string returns empty
\* paragraphs, sections and sentences, and stats that hold the four counts,
\* each zero.
C6_EmptyStructure ==
    (op = "structure_text" /\ text = <<>>) =>
        /\ result.paragraphs = <<>>
        /\ result.sections = <<>>
        /\ result.sentences = <<>>
        /\ "stats" \in DOMAIN result
        /\ DOMAIN result.stats = StatsKeys
        /\ \A k \in StatsKeys : result.stats[k] = 0

MetricKeys == {"readability", "coherence", "completeness", "overall"}

\* C7 (SpecQuality): assess_quality of the empty string returns the four
\* metrics readability, coherence, completeness and overall, each zero.
C7_EmptyQuality ==
    (op = "assess_quality" /\ text = <<>>) =>
        /\ DOMAIN result = MetricKeys
        /\ \A k \in MetricKeys : FEq(result[k], Zero)

\* C8 (SpecQuality): every value assess_quality returns lies in [0,1]:
\* readability, coherence and completeness for every input, and overall
\* wherever it is returned.
C8_ScoresInUnitInterval ==
    op = "assess_quality" =>
        /\ {"readability", "coherence", "completeness"} \subseteq DOMAIN result
        /\ \A k \in DOMAIN result : InUnitInterval(result[k])
\* one long word: readability is floored at 0 and completeness capped at 1
C8_Witness ==
    /\ op = "assess_quality"
    /\ FGt(Frac(Len(text), 1), Frac(15 * WordCount(text), 1))
    /\ Len(text) > 200
    /\ FEq(result.readability, Zero)
    /\ FEq(result.completeness, One)
    /\ FGt(result.overall, Zero)

\* C17 (SpecQuality): assess_quality never divides by zero and fails for no
\* string, the empty one, those of white space only and those without a
\* sentence terminator included: a word, sentence or paragraph count of
\* zero is found by its guard and the sub-score is then 0.
C17_NoDivisionByZero ==
    op = "assess_quality" =>
        LET counts == Divisors(text)
        IN  /\ "error" \notin DOMAIN result
            /\ {"readability", "coherence", "completeness"}
                   \subseteq DOMAIN result
            /\ counts[1] = 0 => FEq(result.readability, Zero)
            /\ counts[2] = 0 => FEq(result.coherence, Zero)
            /\ counts[3] = 0 => FEq(result.completeness, Zero)
\* a text of white space only: no word, no sentence, no paragraph, and the
\* four metrics are returned as 0
C17_Witness ==
    /\ op = "assess_quality"
    /\ text # <<>>
    /\ Divisors(text) = <<0, 0, 0>>
    /\ DOMAIN result = MetricKeys
    /\ \A k \in MetricKeys : FEq(result[k], Zero)

\* C9 (SpecKeywords): extract_keywords returns no word of the stopword set
\* in use, no token shorter than 3 letters, and at most num_keywords words.
C9_KeywordsFiltered ==
    op = "extract_keywords" =>
        /\ \A i \in 1..Len(result) :
               /\ result[i] \notin StopWords(nltk.stopwords)
               /\ Len(result[i]) >= 3
               /\ AllIn(result[i], 1, Len(result[i]), LetterChars)
        /\ Len(result) <= num_keywords
\* a text with a stopword, a two-letter word and more keywords than asked
C9_Witness ==
    /\ op = "extract_keywords"
    /\ \E i \in 1..Len(WordRuns(LowerAll(text))) :
           WordRuns(LowerAll(text))[i] \in StopWords(nltk.stopwords)
    /\ \E i \in 1..Len(WordRuns(text)) : Len(WordRuns(text)[i]) = 2
    /\ num_keywords >= 1
    /\ Len(result) = num_keywords
    /\ Len(Distinct(FilterStopWords(Tokens(text),
                                    StopWords(nltk.stopwords)))) > num_keywords

\* C10 (SpecStructure): for "AAA.", a blank line, "BBB is a test sentence
\* with several words in it." structure_text yields exactly 2 paragraphs
\* and exactly 1 section, titled with the first paragraph if that is
\* heading-like and "Introduction" otherwise.
C10_Scenario ==
    (op = "structure_text" /\ text = ScenarioText) =>
        /\ Len(result.paragraphs) = 2
        /\ Len(result.sections) = 1
        /\ result.sections[1].title =
               IF IsHeading(FirstParagraph) THEN FirstParagraph
               ELSE Introduction

\* the tokens extract_keywords ranks, and the position of a token's first
\* occurrence among them
RankedTokens == FilterStopWords(Tokens(text), StopWords(nltk.stopwords))
FirstAt(ws, w) ==
    CHOOSE k \in 1..Len(ws) : ws[k] = w /\ \A j \in 1..(k - 1) : ws[j] # w
\* a ranks before b: more frequent, or as frequent and first seen earlier
RanksBefore(ws, a, b) ==
    \/ Freq(ws, a) > Freq(ws, b)
    \/ Freq(ws, a) = Freq(ws, b) /\ FirstAt(ws, a) < FirstAt(ws, b)

\* C12 (SpecKeywords): extract_keywords returns the non-stopword tokens by
\* descending frequency, tokens of equal frequency in the order of their
\* first occurrence, and the result is exactly the first num_keywords
\* entries of that ranking (all of it when it is shorter).
C12_Ranking ==
    op = "extract_keywords" =>
        LET ws == RankedTokens
            all == {ws[k] : k \in 1..Len(ws)}
            got == {result[i] : i \in 1..Len(result)}
        IN  /\ got \subseteq all
            /\ Len(result) = Min(num_keywords, Cardinality(all))
            /\ \A i \in 1..Len(result) : \A j \in (i + 1)..Len(result) :
                   RanksBefore(ws, result[i], result[j])
            /\ \A w \in all \ got : \A i \in 1..Len(result) :
                   RanksBefore(ws, result[i], w)
\* three different tokens: the most frequent one comes first although it
\* occurs last, the two others tie and the later of them is cut off
C12_Witness ==
    /\ op = "extract_keywords"
    /\ num_keywords = 2
    /\ Len(result) = 2
    /\ Cardinality({RankedTokens[k] : k \in 1..Len(RankedTokens)}) = 3
    /\ Freq(RankedTokens, result[1]) = 2
    /\ FirstAt(RankedTokens, result[1]) = 3
    /\ FirstAt(RankedTokens, result[2]) = 1

----------------------------------------------------------------------------
(* Claims about post_process_extraction, checked under SpecPipeline *)

Processed == op = "post_process_extraction"
LineBreaks == {"\n", "\r"}

\* C23: the output of clean_text holds no line break, so for every
\* markdown input the structured_text of post_process_extraction has at
\* most one paragraph and at most one section.
C23_OneParagraph ==
    Processed =>
        /\ NoneIn(result.cleaned_text, 1, Len(result.cleaned_text),
                  LineBreaks)
        /\ Len(result.structured_text.paragraphs) <= 1
        /\ Len(result.structured_text.sections) <= 1
        /\ result.structured_text.paragraphs # <<>> =>
               result.structured_text.paragraphs[1] = result.cleaned_text
\* a markdown of two sections, three paragraphs and a carriage return,
\* which comes out as one paragraph in one section
C23_Witness ==
    /\ Processed
    /\ Len(Paragraphs(text)) = 3
    /\ Len(IdentifySections(Paragraphs(text))) = 2
    /\ \E k \in 1..Len(text) : text[k] = "\r"
    /\ Len(result.structured_text.paragraphs) = 1
    /\ Len(result.structured_text.sections) = 1

----------------------------------------------------------------------------
(* Claims about structure_text on whole paragraphs, checked under
   SpecParagraphs *)

\* which paragraphs are heading-like
Headings(ps) == [k \in 1..Len(ps) |-> IsHeading(ps[k])]
\* the places where a run of content paragraphs starts: a paragraph that is
\* no heading and is the first one or follows a heading
RunStarts(heads) ==
    {k \in 1..Len(heads) : ~heads[k] /\ (k = 1 \/ heads[k - 1])}
\* the last paragraph of the run that starts at k
RunEnd(heads, k) ==
    CHOOSE e \in k..Len(heads) :
        /\ \A i \in k..e : ~heads[i]
        /\ e = Len(heads) \/ heads[e + 1]
\* the start of the n-th run
NthStart(starts, n) ==
    CHOOSE k \in starts : Cardinality({j \in starts : j < k}) = n - 1

\* C13: sectioning starts with a section titled "Introduction"; a
\* heading-like paragraph closes the current section and opens one titled
\* with that paragraph; a section is emitted only if it has content.  So the
\* sections are exactly the runs of content paragraphs, each titled with the
\* heading right before it ("Introduction" for a run at the very start),
\* every section has content, and a heading followed by a heading or by the
\* end of the text yields no section.
C13_Sectioning ==
    op = "structure_text" =>
        LET ps == result.paragraphs
            secs == result.sections
            heads == Headings(ps)
            starts == RunStarts(heads)
        IN  /\ Len(secs) = Cardinality(starts)
            /\ \A n \in 1..Len(secs) :
                   LET k == NthStart(starts, n)
                   IN  /\ secs[n].content # <<>>
                       /\ secs[n].title =
                              IF k = 1 THEN Introduction ELSE ps[k - 1]
                       /\ secs[n].content = SubSeq(ps, k, RunEnd(heads, k))
\* content, two headings in a row, content: two sections, none for the
\* first of the two headings
C13_Witness ==
    /\ op = "structure_text"
    /\ Len(result.paragraphs) = 4
    /\ ~IsHeading(result.paragraphs[1])
    /\ IsHeading(result.paragraphs[2])
    /\ IsHeading(result.paragraphs[3])
    /\ result.paragraphs[2] # result.paragraphs[3]
    /\ ~IsHeading(result.paragraphs[4])
    /\ Len(result.sections) = 2
    /\ result.sections[1].title = Introduction
    /\ result.sections[2].title = result.paragraphs[3]

NonHeading(p) == ~IsHeading(p)
RECURSIVE AllContent(_)
\* the content paragraphs of the sections, concatenated in section order
AllContent(secs) ==
    IF secs = <<>> THEN <<>>
    ELSE Head(secs).content \o AllContent(Tail(secs))

\* C27: the content paragraphs of the returned sections, concatenated in
\* section order, are exactly the non-heading paragraphs of the input in
\* their original order: none is lost or duplicated, and no heading-like
\* paragraph is in any section's content.
C27_ContentPreserved ==
    op = "structure_text" =>
        /\ AllContent(result.sections)
               = SelectSeq(result.paragraphs, NonHeading)
        /\ \A n \in 1..Len(result.sections) :
               \A i \in 1..Len(result.sections[n].content) :
                   ~IsHeading(result.sections[n].content[i])
\* the same content paragraph before and after a heading, and another one
\* closing the text: three content paragraphs in two sections
C27_Witness ==
    /\ op = "structure_text"
    /\ Len(result.paragraphs) = 4
    /\ ~IsHeading(result.paragraphs[1])
    /\ IsHeading(result.paragraphs[2])
    /\ result.paragraphs[3] = result.paragraphs[1]
    /\ ~IsHeading(result.paragraphs[4])
    /\ result.paragraphs[4] # result.paragraphs[3]
    /\ Len(result.sections) = 2
    /\ Len(result.sections[2].content) = 2

\* the fragments of a paragraph: the maximal stretches <<i, j>> without a
\* terminator
Fragments(p) ==
    {r \in (1..Len(p)) \X (1..Len(p)) :
        /\ r[1] <= r[2]
        /\ NoneIn(p, r[1], r[2], Terminators)
        /\ r[1] = 1 \/ p[r[1] - 1] \in Terminators
        /\ r[2] = Len(p) \/ p[r[2] + 1] \in Terminators}
\* those that are longer than 10 characters once trimmed
LongFragments(p) ==
    {r \in Fragments(p) : Len(Strip(Slice(p, r[1], r[2]))) > 10}
\* the n-th of a set of fragments, from the left
NthFragment(R, n) ==
    CHOOSE r \in R : Cardinality({q \in R : q[1] < r[1]}) = n - 1
\* each long fragment, trimmed and ended with a period
PeriodEnded(p) ==
    LET long == LongFragments(p)
    IN  [n \in 1..Cardinality(long) |->
            LET r == NthFragment(long, n)
            IN  Strip(Slice(p, r[1], r[2])) \o <<".">>]

\* C19: the fallback splitter splits each paragraph on runs of '.', '!' and
\* '?', keeps exactly the trimmed fragments longer than 10 characters, in
\* order, and appends a '.' to each; so every sentence it returns ends with
\* '.' and has at least 12 characters, whatever terminator the text had.
C19_FallbackSplitter ==
    (op = "structure_text" /\ TokenizerRaises(result.paragraphs, nltk)) =>
        LET ps == result.paragraphs
            got == result.sentences
        IN  /\ got = Flatten([k \in 1..Len(ps) |-> PeriodEnded(ps[k])])
            /\ \A i \in 1..Len(got) :
                   /\ Len(got[i]) >= 12
                   /\ got[i][Len(got[i])] = "."
\* a fragment of 10 characters before a '!' is dropped and one of 11
\* characters before a '?' is kept, as a sentence of 12 that ends with '.'
C19_Witness ==
    /\ op = "structure_text"
    /\ ~nltk.punkt
    /\ Len(result.paragraphs) = 2
    /\ Len(result.paragraphs[1]) = 11
    /\ result.paragraphs[1][11] = "!"
    /\ Len(result.paragraphs[2]) > 12
    /\ result.paragraphs[2][12] = "?"
    /\ Len(result.sentences) = 1
    /\ Len(result.sentences[1]) = 12
    /\ result.sentences[1][12] = "."

\* C20: when the tokenizer fails in structure_text (which reaches it for
\* every text but the empty one), at its import or on any paragraph, the
\* first or a later one, no failure leaves structure_text
\* and the sentences returned are exactly those of the fallback splitter
\* over all paragraphs: none of the sentences the tokenizer had already
\* produced stays in the list.
C20_TokenizerFallback ==
    (op = "structure_text" /\ text # <<>>
         /\ TokenizerRaises(Paragraphs(text), nltk)) =>
        /\ "error" \notin DOMAIN result
        /\ result.sentences = SimpleSentenceSplitting(Paragraphs(text))
        /\ result.stats.sentence_count = Len(result.sentences)
\* the tokenizer fails on the second paragraph, after it has produced a
\* sentence for the first that the fallback splitter does not produce
C20_Witness ==
    /\ op = "structure_text"
    /\ nltk.punkt /\ nltk.raises_at = 2
    /\ Len(result.paragraphs) >= 2
    /\ TokenizedBefore(result.paragraphs, nltk) # <<>>
    /\ result.sentences # <<>>
    /\ \A i \in 1..Len(result.sentences) :
           result.sentences[i] # TokenizedBefore(result.paragraphs, nltk)[1]
    /\ SimpleSentenceSplitting(<<result.paragraphs[1]>>) = <<>>

----------------------------------------------------------------------------
(* Claims about repeated calls of identify_type, checked under SpecCalls *)

\* the calls completed so far, the one that has just returned included
Completed ==
    IF pc = "done"
    THEN Append(history, [doc |-> doc, verdict |-> verdict, raised |-> raised])
    ELSE history

\* C11: identify_type is deterministic and keeps no state across calls: two
\* calls of one router that are given the same page measurements (and in
\* which no collaborator call fails) return the same verdict, whatever
\* calls came before or between them.
C11_Deterministic ==
    \A i \in 1..Len(Completed) : \A j \in 1..Len(Completed) :
        (/\ Completed[i].doc = Completed[j].doc
         /\ Completed[i].raised = "none"
         /\ Completed[j].raised = "none")
            => Completed[i].verdict = Completed[j].verdict
\* the same document classified twice, NATIVE both times, with a call on a
\* document of the other verdict in between
C11_Witness ==
    /\ Len(Completed) = 3
    /\ Completed[1].doc = Completed[3].doc
    /\ Completed[2].doc # Completed[1].doc
    /\ \A i \in 1..3 : Completed[i].raised = "none"
    /\ Completed[1].verdict = "NATIVE"
    /\ Completed[2].verdict = "SCANNED"
    /\ Completed[3].verdict = "NATIVE"

----------------------------------------------------------------------------
(* Claims about DoclingExtractor, checked under SpecExtractor *)

\* C18: for one extractor and calls made one after the other, the
\* conversion engine is constructed at most once, not before the first call
\* that needs it, and every conversion of every call runs on that one
\* engine.
C18_BuiltOnce ==
    /\ Len(built) <= 1
    /\ ecalls = 0 => (built = <<>> /\ converter = None)
    /\ converter # None => (Len(built) = 1 /\ converter = 1)
    /\ \A i \in 1..Len(elog) : elog[i] = 1 /\ Len(built) = 1
    /\ \A t \in DOMAIN epc :
           epc[t] \in {"convert", "post"} => elocal[t] = 1
\* three calls that all converted, on the engine the first of them built
C18_Witness ==
    /\ ecalls = 3
    /\ Len(elog) = 3
    /\ Len(built) = 1
    /\ epc[1] = "returned"
    /\ eargs[1].method = "extract_and_process"
    /\ built[1].fast # eargs[1].fast_mode

\* one step of the extractor, as C26 sees it
EngineKept ==
    built # <<>> => (built' = built /\ converter' = converter)
BuiltAsAsked ==
    (built = <<>> /\ built' # <<>>) =>
        \E t \in DOMAIN epc :
            /\ epc[t] = "build"
            /\ converter' = 1
            /\ built' = <<[do_ocr |-> eargs[t].do_ocr /\ ocr_enabled,
                           do_table_structure |-> FALSE,
                           fast |-> eargs[t].fast_mode]>>
ConvertsOnKept ==
    Len(elog') > Len(elog) =>
        /\ converter = 1
        /\ elog' = Append(elog, converter)
C21_SingleWriter ==
    /\ Len(built) <= 1
    /\ \A t, u \in DOMAIN epc :
           (epc[t] \in {"convert", "post"} /\ epc[u] \in {"convert", "post"})
               => elocal[t] = elocal[u]
    /\ \A i, j \in 1..Len(elog) : elog[i] = elog[j]

\* one router, called several times in a row
InitCalls ==
    /\ RouterInit /\ PostIdle /\ ExtractorIdle
    /\ doc \in CallDocs
NextCalls ==
    \/ Open
    \/ MeasureDensity
    \/ CloseEmpty
    \/ ComputeQuality
    \/ AnalyzeImages
    \/ Close
    \/ Classify
    \/ Fail
    \/ CallAgain
SpecCalls == InitCalls /\ [][NextCalls]_vars

\* one extractor and one caller, who makes one call after the other
InitExtractor ==
    /\ RouterIdle /\ PostIdle
    /\ ocr_enabled \in BOOLEAN
    /\ ExtractorNew(1)
NextExtractor ==
    \/ \E t \in DOMAIN epc : StartCallAlone(t)
    \/ \E t \in DOMAIN epc : CheckConverter(t)
    \/ \E t \in DOMAIN epc : Build(t)
    \/ \E t \in DOMAIN epc : BuildFails(t)
    \/ \E t \in DOMAIN epc : Fetch(t)
    \/ \E t \in DOMAIN epc : Convert(t)
    \/ \E t \in DOMAIN epc : ConvertFails(t)
    \/ \E t \in DOMAIN epc : PostProcess(t)
SpecExtractor == InitExtractor /\ [][NextExtractor]_vars

\* one extractor shared by MaxThreads threads, which call it at any time
InitThreads ==
    /\ RouterIdle /\ PostIdle
    /\ ocr_enabled \in BOOLEAN
    /\ ExtractorNew(MaxThreads)
NextThreads ==
    \/ \E t \in DOMAIN epc : StartCall(t)
    \/ \E t \in DOMAIN epc : CheckConverter(t)
    \/ \E t \in DOMAIN epc : Build(t)
    \/ \E t \in DOMAIN epc : BuildFails(t)
    \/ \E t \in DOMAIN epc : Fetch(t)
    \/ \E t \in DOMAIN epc : Convert(t)
    \/ \E t \in DOMAIN epc : ConvertFails(t)
    \/ \E t \in DOMAIN epc : PostProcess(t)
SpecThreads == InitThreads /\ [][NextThreads]_vars

Init == RouterInit /\ PostIdle /\ ExtractorIdle
Next ==
    \/ Open
    \/ MeasureDensity
    \/ CloseEmpty
    \/ ComputeQuality
    \/ AnalyzeImages
    \/ Close
    \/ Classify
    \/ Fail
Spec == Init /\ [][Next]_vars

====
